---- MODULE Spec2Model ----
(***************************************************************************)
(* A model of scrape.py: the faculty/staff directory scraper.              *)
(*                                                                         *)
(* Text is a sequence of one-character strings.  A parsed page (a          *)
(* BeautifulSoup object) is the sequence of its elements in document       *)
(* order; an element is [tag, text, depth], where text is the text that    *)
(* the element holds before its first child element and depth is its       *)
(* nesting depth.  The children of element i are the following elements    *)
(* of depth doc[i].depth + 1 up to the next element that is not deeper     *)
(* than i.                                                                 *)
(***************************************************************************)
EXTENDS Integers, Sequences, FiniteSets, TLC

(***************************************************************************)
(* Bounds of the model.                                                    *)
(***************************************************************************)
MaxNodes == 4
MaxDepth == 1
MaxNameLen == 4
MaxArgs == 2
MaxAnchors == 3

(***************************************************************************)
(* Python str operations used by the program.                              *)
(***************************************************************************)
IsSpace(c) == c \in {" ", "\n", "\t"}

IsDigit(c) == c \in {"0", "1", "2", "3", "4", "5", "6", "7", "8", "9"}

RECURSIVE Concat(_)
Concat(ss) == IF ss = <<>> THEN <<>> ELSE Head(ss) \o Concat(Tail(ss))

RECURSIVE lstrip(_)
lstrip(s) == IF s # <<>> /\ IsSpace(Head(s)) THEN lstrip(Tail(s)) ELSE s

RECURSIVE rstrip(_)
rstrip(s) ==
  IF s # <<>> /\ IsSpace(s[Len(s)]) THEN rstrip(SubSeq(s, 1, Len(s) - 1)) ELSE s

\* str.strip()
strip(s) == rstrip(lstrip(s))

RECURSIVE lstrip_char(_, _)
lstrip_char(s, c) ==
  IF s # <<>> /\ Head(s) = c THEN lstrip_char(Tail(s), c) ELSE s

RECURSIVE rstrip_char(_, _)
rstrip_char(s, c) ==
  IF s # <<>> /\ s[Len(s)] = c
  THEN rstrip_char(SubSeq(s, 1, Len(s) - 1), c) ELSE s

\* str.strip(c) for a one-character argument
strip_char(s, c) == rstrip_char(lstrip_char(s, c), c)

\* str.replace(a, b) for one-character a and b
replace(s, a, b) == [k \in 1..Len(s) |-> IF s[k] = a THEN b ELSE s[k]]

\* str.split(sep) for a one-character separator: every occurrence splits,
\* empty pieces are kept.
RECURSIVE split_on(_, _)
split_on(s, sep) ==
  IF \A k \in 1..Len(s) : s[k] # sep
  THEN <<s>>
  ELSE LET p == CHOOSE k \in 1..Len(s) :
                  s[k] = sep /\ \A j \in 1..(k - 1) : s[j] # sep
       IN  <<SubSeq(s, 1, p - 1)>> \o split_on(SubSeq(s, p + 1, Len(s)), sep)

\* str.split() without argument: split on runs of whitespace, no empty token.
RECURSIVE split_ws(_)
split_ws(s) ==
  LET t == lstrip(s)
  IN  IF t = <<>>
      THEN <<>>
      ELSE IF \A k \in 1..Len(t) : ~IsSpace(t[k])
           THEN <<t>>
           ELSE LET p == CHOOSE k \in 1..Len(t) :
                           IsSpace(t[k]) /\ \A j \in 1..(k - 1) : ~IsSpace(t[j])
                IN  <<SubSeq(t, 1, p - 1)>> \o split_ws(SubSeq(t, p + 1, Len(t)))

Contains(s, c) == \E k \in 1..Len(s) : s[k] = c

\* ','.join(parts)
RECURSIVE join_comma(_)
join_comma(parts) ==
  IF Len(parts) = 0 THEN <<>>
  ELSE IF Len(parts) = 1 THEN parts[1]
  ELSE parts[1] \o <<",">> \o join_comma(Tail(parts))

\* str.lower() on the letters the label pattern mentions
LowerChar(c) ==
  CASE c = "P" -> "p" [] c = "H" -> "h" [] c = "O" -> "o" [] c = "N" -> "n"
    [] c = "E" -> "e" [] c = "T" -> "t" [] c = "L" -> "l"
    [] OTHER -> c

Lower(s) == [k \in 1..Len(s) |-> LowerChar(s[k])]

(***************************************************************************)
(* The BeautifulSoup operations used by the program.                       *)
(***************************************************************************)
None == [kind |-> "None"]

Raised == [kind |-> "raise"]

Str(s) == [kind |-> "str", val |-> s]

\* the last element of the subtree rooted at element i
SubtreeEnd(doc, i) ==
  LET stops == {j \in (i + 1)..Len(doc) : doc[j].depth <= doc[i].depth}
  IN  IF stops = {} THEN Len(doc)
      ELSE (CHOOSE j \in stops : \A k \in stops : j <= k) - 1

\* Tag.get_text(): the text of the element and of all its descendants
get_text(doc, i) ==
  Concat([k \in 1..(SubtreeEnd(doc, i) - i + 1) |-> doc[i + k - 1].text])

\* PageElement.find_next() without arguments: the next element in document
\* order, whether a descendant or not; 0 stands for None.
find_next(doc, i) == IF i < Len(doc) THEN i + 1 ELSE 0

\* soup(name): the elements of that tag name, in document order
find_all(doc, name) == {i \in 1..Len(doc) : doc[i].tag = name}

Min(S) == CHOOSE x \in S : \A y \in S : x <= y

ChildElements(doc, i) ==
  {j \in (i + 1)..SubtreeEnd(doc, i) : doc[j].depth = doc[i].depth + 1}

\* Tag.string: the only child if it is a string, the .string of the only
\* child if it is an element, None otherwise.
RECURSIVE string_of(_, _)
string_of(doc, i) ==
  LET kids == ChildElements(doc, i)
  IN  IF doc[i].text # <<>> /\ kids = {} THEN Str(doc[i].text)
      ELSE IF doc[i].text = <<>> /\ Cardinality(kids) = 1
           THEN string_of(doc, Min(kids))
           ELSE None

\* soup.find(name, string=s): the first element of that name whose .string
\* equals s; 0 stands for None.
find_tag_string(doc, name, s) ==
  LET hits == {i \in find_all(doc, name) : string_of(doc, i) = Str(s)}
  IN  IF hits = {} THEN 0 ELSE Min(hits)

\* soup.find(string=regex): the first string of the document among those
\* the pattern matches, given as the set hits of the elements that hold
\* them; a string is named by its element; 0 stands for None.
find_string(hits) == IF hits = {} THEN 0 ELSE Min(hits)

\* the elements that hold a string
Strings(doc) == {i \in 1..Len(doc) : doc[i].text # <<>>}

(***************************************************************************)
(* The regular expressions of the extractors.                              *)
(***************************************************************************)
\* r'(^phone$|^telephone$|^telephone:$)' with re.IGNORECASE, searched in a
\* string: the whole string is one of the labels; '$' also matches before
\* a final newline.
LabelWords ==
  { <<"p", "h", "o", "n", "e">>,
    <<"t", "e", "l", "e", "p", "h", "o", "n", "e">>,
    <<"t", "e", "l", "e", "p", "h", "o", "n", "e", ":">> }

phone_label_regex(s) ==
  \/ Lower(s) \in LabelWords
  \/ /\ s # <<>>
     /\ s[Len(s)] = "\n"
     /\ Lower(SubSeq(s, 1, Len(s) - 1)) \in LabelWords

\* r'\S+@\S+\.\S+': a match never crosses whitespace and, being greedy,
\* starts at the beginning and stops at the end of a whitespace-delimited
\* token; a token matches when it has an '@' after at least one character
\* and, at least one character later, a '.' followed by at least one
\* character.
IsEmailToken(t) ==
  \E p \in 2..Len(t) : \E q \in (p + 2)..(Len(t) - 1) : t[p] = "@" /\ t[q] = "."

email_pattern_matches(s) ==
  LET toks == split_ws(s)
  IN  \E k \in 1..Len(toks) : IsEmailToken(toks[k])

\* re.search(email_pattern, s).group(0), for an s the pattern matches
email_pattern_search(s) ==
  LET toks == split_ws(s)
      k == Min({j \in 1..Len(toks) : IsEmailToken(toks[j])})
  IN  toks[k]

\* r'\(?\d{3}\)?[ -.]?\/?\d{3}[ ]?[ -.]?[ ]?\d{4}', one record per item.
\* The class [ -.] is the character range from ' ' to '.'.
SepRange ==
  {" ", "!", "\"", "#", "$", "%", "&", "'", "(", ")", "*", "+", ",", "-", "."}

InClass(c, cls) ==
  CASE cls = "lpar" -> c = "("
    [] cls = "rpar" -> c = ")"
    [] cls = "digit" -> IsDigit(c)
    [] cls = "sep" -> c \in SepRange
    [] cls = "slash" -> c = "/"
    [] cls = "space" -> c = " "

Item(cls, opt) == [cls |-> cls, opt |-> opt]

phone_pattern ==
  << Item("lpar", TRUE),
     Item("digit", FALSE), Item("digit", FALSE), Item("digit", FALSE),
     Item("rpar", TRUE),
     Item("sep", TRUE),
     Item("slash", TRUE),
     Item("digit", FALSE), Item("digit", FALSE), Item("digit", FALSE),
     Item("space", TRUE),
     Item("sep", TRUE),
     Item("space", TRUE),
     Item("digit", FALSE), Item("digit", FALSE), Item("digit", FALSE),
     Item("digit", FALSE) >>

\* The backtracking match of pat[k..] at position i of s: the position
\* after the match, or 0 when there is none.  An optional item is first
\* tried present, then absent.
RECURSIVE MatchAt(_, _, _, _)
MatchAt(s, pat, i, k) ==
  IF k > Len(pat) THEN i
  ELSE LET here == i <= Len(s) /\ InClass(s[i], pat[k].cls)
           taken == IF here THEN MatchAt(s, pat, i + 1, k + 1) ELSE 0
       IN  IF pat[k].opt
           THEN IF taken # 0 THEN taken ELSE MatchAt(s, pat, i, k + 1)
           ELSE taken

\* re.search(pat, s): the leftmost match, None when there is none
re_search(s, pat) ==
  LET starts == {i \in 1..Len(s) : MatchAt(s, pat, i, 1) # 0}
      first == Min(starts)
  IN  IF starts = {} THEN None
      ELSE Str(SubSeq(s, first, MatchAt(s, pat, first, 1) - 1))

(***************************************************************************)
(* The field extractors.  A result is Str(s), a pair of names, None, or    *)
(* Raised when the function ends with an exception.                        *)
(***************************************************************************)
Pair(last, first) == [kind |-> "pair", last |-> last, first |-> first]

Education == <<"E", "d", "u", "c", "a", "t", "i", "o", "n">>

\* the function of lines 59-67 with split(',', 1) in place of split(',')
extract_name_rest(soup) ==
  LET h1 == find_all(soup, "h1")
  IN  IF h1 # {}
      THEN LET name == strip(get_text(soup, Min(h1)))
               p == Min({k \in 1..Len(name) : name[k] = ","})
           IN  IF Contains(name, ",")
               THEN Pair(SubSeq(name, 1, p - 1), SubSeq(name, p + 1, Len(name)))
               ELSE IF Len(split_ws(name)) > 1
                    THEN Pair(split_ws(name)[Len(split_ws(name))], split_ws(name)[1])
                    ELSE None
      ELSE Str(<<>>)

extract_name(soup) ==
  LET h1 == find_all(soup, "h1")
  IN  IF h1 # {}
      THEN LET name == strip(get_text(soup, Min(h1)))
           IN  IF Contains(name, ",")
               THEN Pair(split_on(name, ",")[1], split_on(name, ",")[2])
               ELSE IF Len(split_ws(name)) > 1
                    THEN Pair(split_ws(name)[Len(split_ws(name))], split_ws(name)[1])
                    ELSE None
      ELSE Str(<<>>)

extract_email(soup) ==
  LET email == find_string({n \in Strings(soup) : email_pattern_matches(soup[n].text)})
  IN  IF email # 0
      THEN IF email_pattern_matches(soup[email].text)
           THEN Str(strip_char(email_pattern_search(soup[email].text), ","))
           ELSE Str(<<>>)
      ELSE Str(<<>>)

extract_phone(soup) ==
  LET phone == find_string({n \in Strings(soup) : phone_label_regex(soup[n].text)})
  IN  IF phone # 0
      THEN IF find_next(soup, phone) = 0
           THEN Raised
           ELSE LET format1 == soup[phone].text
                    format2 == get_text(soup, find_next(soup, phone))
                    phone_match == re_search(format1 \o format2, phone_pattern)
                IN  IF phone_match # None THEN phone_match ELSE Str(<<>>)
      ELSE Str(<<>>)

normalize(s) == strip(replace(replace(s, ",", "-"), "\n", " "))

\* lines 123-124 without replace(',', '-')
normalize_keep_commas(s) == strip(replace(s, "\n", " "))

\* the function of lines 119-129 reading the list's next sibling
extract_education_sibling(soup) ==
  LET education == find_tag_string(soup, "h2", Education)
  IN  IF education # 0
      THEN LET next_element == find_next(soup, education)
           IN  IF next_element = 0 THEN Raised
               ELSE IF soup[next_element].tag = "ul"
                    THEN LET after == SubtreeEnd(soup, next_element) + 1
                         IN  IF after > Len(soup)
                                \/ soup[after].depth # soup[next_element].depth
                             THEN Raised
                             ELSE Str(normalize(get_text(soup, after)))
                    ELSE Str(normalize(get_text(soup, next_element)))
      ELSE Str(<<>>)

\* the function of lines 119-129 without replace(',', '-')
extract_education_commas(soup) ==
  LET education == find_tag_string(soup, "h2", Education)
  IN  IF education # 0
      THEN LET next_element == find_next(soup, education)
           IN  IF next_element = 0 THEN Raised
               ELSE IF soup[next_element].tag = "ul"
                    THEN IF find_next(soup, next_element) = 0 THEN Raised
                         ELSE Str(normalize_keep_commas(
                                    get_text(soup, find_next(soup, next_element))))
                    ELSE Str(normalize_keep_commas(get_text(soup, next_element)))
      ELSE Str(<<>>)

extract_education(soup) ==
  LET education == find_tag_string(soup, "h2", Education)
  IN  IF education # 0
      THEN LET next_element == find_next(soup, education)
           IN  IF next_element = 0 THEN Raised
               ELSE IF soup[next_element].tag = "ul"
                    THEN IF find_next(soup, next_element) = 0 THEN Raised
                         ELSE Str(normalize(
                                    get_text(soup, find_next(soup, next_element))))
                    ELSE Str(normalize(get_text(soup, next_element)))
      ELSE Str(<<>>)

\* the truth value Python gives a result of extract_name
Truthy(name) == name.kind = "pair"

Row(fields) == [kind |-> "row", fields |-> fields, text |-> join_comma(fields)]

\* get_info after a successful fetch: soup is the parsed page
get_info_soup(soup) ==
  LET name == extract_name(soup)
  IN  IF Truthy(name)
      THEN LET email == extract_email(soup)
               phone == extract_phone(soup)
               education == extract_education(soup)
           IN  IF Raised \in {email, phone, education}
               THEN Raised
               ELSE Row(<< strip(name.last), strip(name.first), strip(email.val),
                           strip(phone.val), strip(education.val) >>)
      ELSE None

(***************************************************************************)
(* Command line, URLs and the robots policy.                               *)
(***************************************************************************)
\* os.path.splitext(p)[1]: the text from the last dot of the last path
\* component, '' when that component has no dot after a character that is
\* not a dot.
splitext_ext(p) ==
  LET seps == {k \in 1..Len(p) : p[k] = "/"}
      sepIndex == IF seps = {} THEN 0 ELSE CHOOSE k \in seps : \A j \in seps : j <= k
      dots == {k \in 1..Len(p) : p[k] = "."}
      dotIndex == IF dots = {} THEN 0 ELSE CHOOSE k \in dots : \A j \in dots : j <= k
  IN  IF dotIndex > sepIndex
         /\ \E k \in (sepIndex + 1)..(dotIndex - 1) : p[k] # "."
      THEN SubSeq(p, dotIndex, Len(p))
      ELSE <<>>

DotCsv == <<".", "c", "s", "v">>

\* url = "https://sjsu.edu/people/" of main, as urlparse splits it
MainUrl == [scheme |-> "https", hostname |-> "sjsu.edu", path |-> "/people/"]

Bool(b) == [kind |-> "bool", val |-> b]

\* What reading the robots.txt url can meet: an URLError that is no
\* HTTPError (DNS, refused connection), an HTTPError with a status code,
\* an exception that is no URLError (a timeout or reset while the body is
\* read, a body that is not UTF-8), or a policy that was read and that
\* allows or forbids the url to the user agent.
HttpErrorCodes == {401, 403, 404, 410, 429, 500, 503}

RobotsOutcomes ==
  {[kind |-> "URLError"], [kind |-> "OtherError"]}
    \cup {[kind |-> "HTTPError", code |-> c] : c \in HttpErrorCodes}
    \cup {[kind |-> "policy", allows |-> b] : b \in BOOLEAN}

\* RobotFileParser.read(): HTTPError is caught inside (401 and 403 set
\* disallow_all, other 4xx set allow_all), other exceptions leave it.
rp_read(outcome) ==
  CASE outcome.kind = "policy" ->
         [raised |-> "", disallow_all |-> FALSE, allow_all |-> FALSE,
          last_checked |-> TRUE]
    [] outcome.kind = "HTTPError" ->
         [raised |-> "", disallow_all |-> outcome.code \in {401, 403},
          allow_all |-> outcome.code \notin {401, 403}
                          /\ outcome.code >= 400 /\ outcome.code < 500,
          last_checked |-> FALSE]
    [] OTHER ->
         [raised |-> outcome.kind, disallow_all |-> FALSE, allow_all |-> FALSE,
          last_checked |-> FALSE]

\* RobotFileParser.can_fetch(user_agent, url)
rp_can_fetch(rp, outcome) ==
  IF rp.disallow_all THEN FALSE
  ELSE IF rp.allow_all THEN TRUE
  ELSE IF ~rp.last_checked THEN FALSE
  ELSE outcome.allows

RobotsRequest(url) ==
  [kind |-> "robots", scheme |-> url.scheme, hostname |-> url.hostname]

\* ok_to_crawl(url): the result and the requests made; outcome is what
\* reading robots.txt meets, if it is read.
ok_to_crawl(url, outcome) ==
  IF url.scheme = "" \/ url.hostname = ""
  THEN [result |-> Bool(FALSE), requests |-> <<>>,
        printed |-> <<"Not a valid absolute url">>]
  ELSE LET rp == rp_read(outcome)
       IN  IF rp.raised = "URLError"
           THEN [result |-> Bool(FALSE), requests |-> <<RobotsRequest(url)>>,
                 printed |-> <<"Error opening robot.txt">>]
           ELSE IF rp.raised # ""
                THEN [result |-> Raised, requests |-> <<RobotsRequest(url)>>,
                      printed |-> <<>>]
                ELSE [result |-> Bool(rp_can_fetch(rp, outcome)),
                      requests |-> <<RobotsRequest(url)>>, printed |-> <<>>]

(***************************************************************************)
(* Fetching pages and collecting links.                                    *)
(***************************************************************************)
\* r'/people/' with re.IGNORECASE, searched in an href
PeoplePath == <<"/", "p", "e", "o", "p", "l", "e", "/">>

people_regex(href) ==
  \E k \in 1..(Len(href) - Len(PeoplePath) + 1) :
     Lower(SubSeq(href, k, k + Len(PeoplePath) - 1)) = PeoplePath

\* urllib.parse.urljoin('https://sjsu.edu/', href) for an href that is a
\* path, absolute or relative
urljoin_base(href) ==
  [origin |-> "https://sjsu.edu",
   path |-> IF href # <<>> /\ Head(href) = "/" THEN href ELSE <<"/">> \o href]

\* What a request of urlopen can meet: an URLError, another exception, or
\* a response whose body parses to the page soup.
Response(soup) == [kind |-> "response", soup |-> soup]

FetchErrors == {[kind |-> "URLError"], [kind |-> "OtherError"]}

\* read_url(url): both except clauses print and fall through to return
\* None; only a response gives the parsed page.
read_url(met) == IF met.kind = "response" THEN met.soup ELSE None

\* a Python list
List(q) == [kind |-> "list", val |-> q]

RECURSIVE people_anchors(_)
people_anchors(anchors) ==
  IF anchors = <<>> THEN <<>>
  ELSE IF people_regex(Head(anchors))
       THEN <<urljoin_base(Head(anchors))>> \o people_anchors(Tail(anchors))
       ELSE people_anchors(Tail(anchors))

\* get_people_links(url): met is what the fetch of the index meets; the
\* soup of an index is [kind |-> "index", anchors |-> the hrefs in order]
get_people_links(met) ==
  LET soup == read_url(met)
  IN  IF soup # None THEN List(people_anchors(soup.anchors)) ELSE None

\* get_info(url): met is what the fetch of the profile meets; the soup of
\* a profile is [kind |-> "page", doc |-> its elements]
get_info(met) ==
  LET soup == read_url(met)
  IN  IF soup # None THEN get_info_soup(soup.doc) ELSE None

(***************************************************************************)
(* The inputs: command lines, index pages, profile pages.                  *)
(***************************************************************************)
FileNames ==
  { <<"a", ".", "c", "s", "v">>,
    <<"a", ".", "b", ".", "c", "s", "v">>,
    <<".", "c", "s", "v">>,
    <<"a", ".", "C", "S", "V">>,
    <<"a", ".", "t", "x", "t">>,
    <<"c", "s", "v">>,
    <<"a", ".", "c", "s", "v", "/", "b">> }

RECURSIVE SeqsUpTo(_, _)
SeqsUpTo(S, n) ==
  IF n = 0 THEN {<<>>}
  ELSE SeqsUpTo(S, n - 1)
         \cup {Append(q, x) : q \in {r \in SeqsUpTo(S, n - 1) : Len(r) = n - 1},
                              x \in S}

\* sys.argv: the program name and up to MaxArgs arguments
ArgVectors == {<<"scrape.py">> \o a : a \in SeqsUpTo(FileNames, MaxArgs)}

Hrefs ==
  { <<"/", "p", "e", "o", "p", "l", "e", "/", "a">>,
    <<"/", "P", "e", "o", "p", "l", "e", "/", "b">>,
    <<"/", "a", "b", "o", "u", "t">> }

IndexSoups == {[kind |-> "index", anchors |-> a] : a \in SeqsUpTo(Hrefs, MaxAnchors)}

Elem(tag, text, depth) == [tag |-> tag, text |-> text, depth |-> depth]

PhoneLabel == <<"P", "h", "o", "n", "e">>

PhoneNumber ==
  <<"(", "4", "0", "8", ")", " ", "9", "2", "4", "-", "1", "0", "0", "0">>

\* a phone number written with commas next to an address with a comma
PhoneAndEmail ==
  << "4", "0", "8", ",", "9", "2", "4", ",", "1", "0", "0", "0", " ",
     "j", ",", "d", "@", "s", ".", "e", "," >>

Degrees == <<"B", "S", ",", " ", "M", "I", "T", "\n", "P", "h", "D">>

\* the profile pages the crawl can meet
ProfileDocs ==
  { << Elem("h1", <<"D", "o", "e", ",", " ", "J">>, 0),
       Elem("p", PhoneLabel, 0), Elem("p", PhoneNumber, 0),
       Elem("h2", Education, 0), Elem("p", Degrees, 0) >>,
    << Elem("h1", <<"J", " ", "M", " ", "D", "o", "e">>, 0) >>,
    << Elem("h1", <<"D", "o", "e">>, 0), Elem("p", PhoneAndEmail, 0) >>,
    << Elem("p", PhoneAndEmail, 0) >>,
    << Elem("h1", <<"D", "o", "e", ",", "J">>, 0), Elem("h2", Education, 0) >>,
    << Elem("p", <<"x">>, 0), Elem("p", PhoneLabel, 0) >> }

ProfileSoups == {[kind |-> "page", doc |-> d] : d \in ProfileDocs}

(***************************************************************************)
(* The state of a run of main.                                             *)
(***************************************************************************)
VARIABLES
  pc,            \* the statement main or harvest is at
  argv,          \* sys.argv
  stdout,        \* what was printed
  net,           \* the requests made, in order
  perm,          \* the results of the calls of ok_to_crawl, in order
  people_links,  \* harvest's people_links
  i,             \* harvest's loop variable
  file,          \* the output file: "absent", "open" or "closed"
  lines,         \* the lines written to the output file
  met,           \* what each profile fetch met, in order
  url,           \* the argument of ok_to_crawl called on its own
  soup,          \* the page handed to the extractors called on their own
  out            \* the results of the functions called on their own

vars ==
  << pc, argv, stdout, net, perm, people_links, i, file, lines, met, url, soup, out >>

NoValue == [kind |-> "unset"]

Header ==
  << "L", "a", "s", "t", " ", "N", "a", "m", "e", ",",
     "F", "i", "r", "s", "t", " ", "N", "a", "m", "e", ",",
     "E", "m", "a", "i", "l", ",",
     "P", "h", "o", "n", "e", " ", "N", "u", "m", "b", "e", "r", ",",
     "E", "d", "u", "c", "a", "t", "i", "o", "n", " ", "\n" >>

IndexRequest == [kind |-> "index"]

ProfileRequest(link) == [kind |-> "profile", link |-> link]

Init ==
  /\ pc = "main"
  /\ argv \in ArgVectors
  /\ stdout = <<>>
  /\ net = <<>>
  /\ perm = <<>>
  /\ people_links = NoValue
  /\ i = 0
  /\ file = "absent"
  /\ lines = <<>>
  /\ met = <<>>
  /\ url = MainUrl
  /\ soup = NoValue
  /\ out = NoValue

\* lines 199-204 without the check of the extension
Main_Usage_any_extension ==
  /\ pc = "main"
  /\ IF Len(argv) # 2
     THEN /\ stdout' = stdout \o <<"Error: invalid number of arguments",
                                   "Usage: scrape.py filename">>
          /\ pc' = "done"
     ELSE /\ stdout' = stdout
          /\ pc' = "ok_to_crawl"
  /\ UNCHANGED << argv, net, perm, people_links, i, file, lines, met, url, soup, out >>

\* main, lines 199-203: the two usage checks
Main_Usage ==
  /\ pc = "main"
  /\ IF Len(argv) # 2
     THEN /\ stdout' = stdout \o <<"Error: invalid number of arguments",
                                   "Usage: scrape.py filename">>
          /\ pc' = "done"
     ELSE IF ~(splitext_ext(argv[2]) = DotCsv)
          THEN /\ stdout' = Append(stdout, "Please specify a csv filename")
               /\ pc' = "done"
          ELSE /\ stdout' = stdout
               /\ pc' = "ok_to_crawl"
  /\ UNCHANGED << argv, net, perm, people_links, i, file, lines, met, url, soup, out >>

\* the permission branch of lines 206-209 entering harvest whatever
\* ok_to_crawl returned
Main_Permission_ignored ==
  /\ pc = "ok_to_crawl"
  /\ \E outcome \in RobotsOutcomes :
       LET r == ok_to_crawl(url, outcome)
       IN  /\ net' = net \o r.requests
           /\ perm' = Append(perm, r.result)
           /\ stdout' = stdout \o r.printed
           /\ pc' = IF r.result = Raised THEN "error" ELSE "harvest"
  /\ UNCHANGED << argv, people_links, i, file, lines, met, url, soup, out >>

\* main, lines 205-209: the permission check and its two branches
Main_Permission ==
  /\ pc = "ok_to_crawl"
  /\ \E outcome \in RobotsOutcomes :
       LET r == ok_to_crawl(url, outcome)
       IN  /\ net' = net \o r.requests
           /\ perm' = Append(perm, r.result)
           /\ IF r.result = Raised
              THEN /\ stdout' = stdout \o r.printed
                   /\ pc' = "error"
              ELSE IF r.result.val
                   THEN /\ stdout' = stdout \o r.printed
                        /\ pc' = "harvest"
                   ELSE /\ stdout' = stdout \o r.printed
                                       \o <<"This URL cannot be fetched!">>
                        /\ pc' = "done"
  /\ UNCHANGED << argv, people_links, i, file, lines, met, url, soup, out >>

\* harvest, line 188
Harvest_Links ==
  /\ pc = "harvest"
  /\ \E m \in FetchErrors \cup {Response(s) : s \in IndexSoups} :
       people_links' = get_people_links(m)
  /\ net' = Append(net, IndexRequest)
  /\ pc' = "open"
  /\ UNCHANGED << argv, stdout, perm, i, file, lines, met, url, soup, out >>

\* harvest, line 189: open(filename, 'w') truncates the file
Harvest_Open ==
  /\ pc = "open"
  /\ file' = "open"
  /\ lines' = <<>>
  /\ pc' = "header"
  /\ UNCHANGED << argv, stdout, net, perm, people_links, i, met, url, soup, out >>

\* harvest, lines 190-191
Harvest_Header ==
  /\ pc = "header"
  /\ lines' = Append(lines, Header)
  /\ pc' = "for"
  /\ UNCHANGED << argv, stdout, net, perm, people_links, i, file, met, url, soup, out >>

\* line 192 with range(0, len(people_links))
Harvest_For_from0 ==
  /\ pc = "for"
  /\ IF people_links = None
     THEN /\ file' = "closed"
          /\ pc' = "error"
          /\ i' = i
     ELSE /\ file' = file
          /\ pc' = "loop"
          /\ i' = 0
  /\ UNCHANGED << argv, stdout, net, perm, people_links, lines, met, url, soup, out >>

\* harvest, line 192: range(1, len(people_links)); len(None) raises
\* TypeError, which leaves the with block (closing the file) and main.
Harvest_For ==
  /\ pc = "for"
  /\ IF people_links = None
     THEN /\ file' = "closed"
          /\ pc' = "error"
          /\ i' = i
     ELSE /\ file' = file
          /\ pc' = "loop"
          /\ i' = 1
  /\ UNCHANGED << argv, stdout, net, perm, people_links, lines, met, url, soup, out >>

\* harvest, lines 192-195: one iteration; people_links[i] is element i + 1
\* of the sequence.  An exception of an extractor leaves the with block
\* (closing the file) and main.
Harvest_Step ==
  /\ pc = "loop"
  /\ i < Len(people_links.val)
  /\ \E m \in FetchErrors \cup {Response(s) : s \in ProfileSoups} :
       LET info == get_info(m)
       IN  /\ met' = Append(met, m)
           /\ net' = Append(net, ProfileRequest(people_links.val[i + 1]))
           /\ IF info = Raised
              THEN /\ file' = "closed"
                   /\ pc' = "error"
                   /\ UNCHANGED << lines, i >>
              ELSE /\ lines' = IF info # None
                               THEN Append(lines, info.text \o <<"\n">>)
                               ELSE lines
                   /\ i' = i + 1
                   /\ UNCHANGED << file, pc >>
  /\ UNCHANGED << argv, stdout, perm, people_links, url, soup, out >>

\* harvest, line 192 exhausted: the with block closes the file, main ends
Harvest_Close ==
  /\ pc = "loop"
  /\ i >= Len(people_links.val)
  /\ file' = "closed"
  /\ pc' = "done"
  /\ UNCHANGED << argv, stdout, net, perm, people_links, i, lines, met, url, soup, out >>

Next ==
  \/ Main_Usage
  \/ Main_Permission
  \/ Harvest_Links
  \/ Harvest_Open
  \/ Harvest_Header
  \/ Harvest_For
  \/ Harvest_Step
  \/ Harvest_Close

Spec == Init /\ [][Next]_vars

(***************************************************************************)
(* The extractors called on their own, on every page of a bounded shape.   *)
(***************************************************************************)
\* The elements a page is made of.  The list item holds degrees, a phone
\* number and an address, each written with commas.
NodeKinds ==
  { [tag |-> "h1", text |-> <<"D", ",", " ", "J">>],
    [tag |-> "h2", text |-> Education],
    [tag |-> "ul", text |-> <<>>],
    [tag |-> "li", text |-> Degrees \o <<"\n">> \o PhoneAndEmail],
    [tag |-> "p", text |-> PhoneLabel] }

\* the depths the element after the elements d can have
NextDepths(d) ==
  IF d = <<>> THEN {0}
  ELSE {n \in 0..MaxDepth : n <= d[Len(d)].depth + 1}

NameChars == {"a", "b", ",", " ", "\n"}

\* the pages that are one level-1 heading
NameDocs == {<<Elem("h1", t, 0)>> : t \in SeqsUpTo(NameChars, MaxNameLen)}

InitExtract ==
  /\ \/ pc = "parse" /\ soup = <<>>
     \/ pc = "extract" /\ soup \in NameDocs \cup ProfileDocs
  /\ out = NoValue
  /\ argv = <<"scrape.py">>
  /\ stdout = <<>>
  /\ net = <<>>
  /\ perm = <<>>
  /\ people_links = NoValue
  /\ i = 0
  /\ file = "absent"
  /\ lines = <<>>
  /\ met = <<>>
  /\ url = MainUrl

\* read_url, line 33: the parser adds the elements of the page in document
\* order
Parse_Element ==
  /\ pc = "parse"
  /\ Len(soup) < MaxNodes
  /\ \E k \in NodeKinds, dp \in NextDepths(soup) :
       soup' = Append(soup, Elem(k.tag, k.text, dp))
  /\ UNCHANGED << pc, argv, stdout, net, perm, people_links, i, file, lines, met, url, out >>

\* the four extractors and get_info applied to the page
Extract_Page ==
  /\ pc \in {"parse", "extract"}
  /\ out' = [kind |-> "extracted",
             name |-> extract_name(soup),
             email |-> extract_email(soup),
             phone |-> extract_phone(soup),
             education |-> extract_education(soup),
             info |-> get_info_soup(soup)]
  /\ pc' = "extracted"
  /\ UNCHANGED << argv, stdout, net, perm, people_links, i, file, lines, met, url, soup >>

NextExtract == Parse_Element \/ Extract_Page

SpecExtract == InitExtract /\ [][NextExtract]_vars

(***************************************************************************)
(* ok_to_crawl called on its own, on every url of a bounded shape.         *)
(***************************************************************************)
Urls ==
  [scheme : {"", "http", "https"}, hostname : {"", "sjsu.edu", "www.sjsu.edu"},
   path : {"", "/people/", "/robots.txt"}]

InitCrawl ==
  /\ pc = "crawl"
  /\ url \in Urls
  /\ out = NoValue
  /\ soup = NoValue
  /\ argv = <<"scrape.py">>
  /\ stdout = <<>>
  /\ net = <<>>
  /\ perm = <<>>
  /\ people_links = NoValue
  /\ i = 0
  /\ file = "absent"
  /\ lines = <<>>
  /\ met = <<>>

Crawl_Call ==
  /\ pc = "crawl"
  /\ \E outcome \in RobotsOutcomes :
       LET r == ok_to_crawl(url, outcome)
       IN  /\ out' = [kind |-> "called", outcome |-> outcome, result |-> r.result]
           /\ net' = net \o r.requests
           /\ perm' = Append(perm, r.result)
           /\ stdout' = stdout \o r.printed
  /\ pc' = "called"
  /\ UNCHANGED << argv, people_links, i, file, lines, met, url, soup >>

NextCrawl == Crawl_Call

SpecCrawl == InitCrawl /\ [][NextCrawl]_vars

(***************************************************************************)
(* Properties of the extractors (SpecExtract).                             *)
(***************************************************************************)
Extracted == out.kind = "extracted"

CountOf(s, c) == Cardinality({k \in 1..Len(s) : s[k] = c})

\* the text of the first level-1 heading, trimmed
HeadingText == strip(get_text(soup, Min(find_all(soup, "h1"))))

HasHeading == find_all(soup, "h1") # {}

FirstComma(s) == Min({k \in 1..Len(s) : s[k] = ","})

\* the text after the first comma of s, up to its second comma if it has one
UpToNextComma(s) ==
  LET rest == SubSeq(s, FirstComma(s) + 1, Len(s))
  IN  IF Contains(rest, ",") THEN SubSeq(rest, 1, FirstComma(rest) - 1) ELSE rest

\* C5: on every parsed page each of the email, phone and education
\* extractors returns a string, the name extractor returns a pair or says
\* that there is no name, and get_info does not raise.
C5_ExtractorsNeverRaise ==
  Extracted =>
    /\ out.email.kind = "str"
    /\ out.phone.kind = "str"
    /\ out.education.kind = "str"
    /\ out.name.kind \in {"pair", "None", "str"}
    /\ out.info # Raised

\* C7 as stated: for a heading with a comma the last name is the text
\* before the first comma and the first name is all the text after it.
C7_FirstNameIsAllAfterFirstComma ==
  (Extracted /\ HasHeading /\ Contains(HeadingText, ",")) =>
    out.name = Pair(SubSeq(HeadingText, 1, FirstComma(HeadingText) - 1),
                    SubSeq(HeadingText, FirstComma(HeadingText) + 1, Len(HeadingText)))

\* C7 as amended: for a heading with a comma the last name is the text
\* before the first comma and the first name is the text between the
\* first comma and the second one, or the end when there is no second.
C7_FirstNameIsUpToSecondComma ==
  (Extracted /\ HasHeading /\ Contains(HeadingText, ",")) =>
    out.name = Pair(SubSeq(HeadingText, 1, FirstComma(HeadingText) - 1),
                    UpToNextComma(HeadingText))

C7_Witness ==
  /\ Extracted
  /\ HasHeading
  /\ CountOf(HeadingText, ",") >= 2
  /\ out.name.kind = "pair"
  /\ out.name.first # <<>>
  /\ out.name.first # SubSeq(HeadingText, FirstComma(HeadingText) + 1, Len(HeadingText))

\* the level-2 heading 'Education' and the element after it
EducationHeading == find_tag_string(soup, "h2", Education)

AfterHeading == EducationHeading + 1

ListFollowsHeading ==
  /\ EducationHeading # 0
  /\ AfterHeading <= Len(soup)
  /\ soup[AfterHeading].tag = "ul"

\* the element after the whole list at the list's own level; 0 when the
\* list is the last child of its parent
ListNextSibling ==
  LET after == SubtreeEnd(soup, AfterHeading) + 1
  IN  IF after <= Len(soup) /\ soup[after].depth = soup[AfterHeading].depth
      THEN after ELSE 0

\* the first child element of the list if it has one, else the element
\* that follows the list in the page; 0 when the page ends with the list
ListNextInDocumentOrder ==
  LET kids == ChildElements(soup, AfterHeading)
      after == SubtreeEnd(soup, AfterHeading) + 1
  IN  IF kids # {} THEN Min(kids)
      ELSE IF after <= Len(soup) THEN after ELSE 0

Normalized(s) ==
  strip([k \in 1..Len(s) |->
           CASE s[k] = "," -> "-" [] s[k] = "\n" -> " " [] OTHER -> s[k]])

\* C8 as stated: when a list follows the heading 'Education' the result is
\* the normalized text of the list's next sibling; otherwise it is the
\* normalized text of the element after the heading.
C8_ReadsListSibling ==
  /\ (Extracted /\ ListFollowsHeading /\ ListNextSibling # 0) =>
       out.education = Str(Normalized(get_text(soup, ListNextSibling)))
  /\ (Extracted /\ EducationHeading # 0 /\ AfterHeading <= Len(soup)
        /\ soup[AfterHeading].tag # "ul") =>
       out.education = Str(Normalized(get_text(soup, AfterHeading)))

\* C8 as amended: when a list follows the heading 'Education' the result is
\* the normalized text of the element after the list's start in document
\* order, which is the list's first child element when it has one and the
\* element after the list when it has none; otherwise it is the normalized
\* text of the element after the heading.
C8_ReadsNextInDocumentOrder ==
  /\ (Extracted /\ ListFollowsHeading /\ ListNextInDocumentOrder # 0) =>
       out.education = Str(Normalized(get_text(soup, ListNextInDocumentOrder)))
  /\ (Extracted /\ EducationHeading # 0 /\ AfterHeading <= Len(soup)
        /\ soup[AfterHeading].tag # "ul") =>
       out.education = Str(Normalized(get_text(soup, AfterHeading)))

C8_Witness ==
  /\ Extracted
  /\ ListFollowsHeading
  /\ ChildElements(soup, AfterHeading) # {}
  /\ ListNextSibling # 0
  /\ out.education.kind = "str"
  /\ out.education.val # <<>>
  /\ out.education.val # Normalized(get_text(soup, ListNextSibling))

\* C10 as stated: a row of get_info has exactly four commas and no newline.
C10_ExactlyFiveFields ==
  (Extracted /\ out.info.kind = "row") =>
    /\ CountOf(out.info.text, ",") = 4
    /\ ~Contains(out.info.text, "\n")

\* C10 as amended: a row of get_info is its five trimmed fields joined by
\* four commas; the last name, the first name and the education hold no
\* comma and the education holds no newline, while the email, the phone
\* and the first name are not cleaned, so the row has at least four commas.
C10_AtLeastFiveFields ==
  (Extracted /\ out.info.kind = "row") =>
    LET f == out.info.fields
    IN  /\ Len(f) = 5
        /\ out.info.text = f[1] \o <<",">> \o f[2] \o <<",">> \o f[3]
                             \o <<",">> \o f[4] \o <<",">> \o f[5]
        /\ CountOf(out.info.text, ",") >= 4
        /\ ~Contains(f[1], ",")
        /\ ~Contains(f[2], ",")
        /\ ~Contains(f[5], ",")
        /\ ~Contains(f[5], "\n")
        /\ \A k \in 1..5 : f[k] = strip(f[k])

C10_Witness ==
  /\ Extracted
  /\ out.info.kind = "row"
  /\ EducationHeading # 0
  /\ Contains(get_text(soup, AfterHeading), ",")
  /\ Contains(out.info.fields[5], "-")
  /\ CountOf(out.info.text, ",") > 4

(***************************************************************************)
(* Properties of a run of main (Spec).                                     *)
(***************************************************************************)
Ended == pc \in {"done", "error"}

ValidUsage == Len(argv) = 2 /\ splitext_ext(argv[2]) = DotCsv

Granted == perm = <<Bool(TRUE)>>

Denied == perm = <<Bool(FALSE)>>

IsCrawlRequest(r) == r.kind \in {"index", "profile"}

IsProfileRequest(r) == r.kind = "profile"

IsIndexRequest(r) == r.kind = "index"

IsHeader(l) == l = Header

\* the links of the profile requests made, in order
FetchedLinks ==
  LET reqs == SelectSeq(net, IsProfileRequest)
  IN  [k \in 1..Len(reqs) |-> reqs[k].link]

\* the lines of the output file after the header
DataRows == Tail(lines)

\* the page has a level-1 heading whose trimmed text has a comma or more
\* than one word
NamedPage(d) ==
  /\ find_all(d, "h1") # {}
  /\ LET t == strip(get_text(d, Min(find_all(d, "h1"))))
     IN  Contains(t, ",") \/ Len(split_ws(t)) > 1

GivesRow(m) == m.kind = "response" /\ NamedPage(m.soup.doc)

\* the rows of the fetches that succeeded and found a name, in order
ExpectedRows ==
  LET good == SelectSeq(met, GivesRow)
  IN  [k \in 1..Len(good) |-> get_info(good[k]).text \o <<"\n">>]

HarvestCompleted == pc = "done" /\ file = "closed"

\* the links at positions 2..N of the list, in order
LinksAfterFirst ==
  [k \in 1..(Len(people_links.val) - 1) |-> people_links.val[k + 1]]

RowsMatchFetches ==
  /\ FetchedLinks = LinksAfterFirst
  /\ Len(met) = Len(FetchedLinks)
  /\ lines # <<>>
  /\ DataRows = ExpectedRows

\* C1 as stated: when harvest completes on a list of N links the data rows
\* are, in link order, the rows of the links at positions 2..N whose fetch
\* succeeded and gave a name, and there are at most N - 1 of them.
C1_RowsOfLinksAfterFirst ==
  HarvestCompleted =>
    /\ RowsMatchFetches
    /\ Len(DataRows) <= Len(people_links.val) - 1

\* C1 as amended: the same, with at most N - 1 data rows when N >= 1 and
\* none when N = 0.
C1_RowsOfLinksAfterFirstOrNone ==
  HarvestCompleted =>
    /\ RowsMatchFetches
    /\ Len(DataRows) <= (IF Len(people_links.val) = 0
                         THEN 0 ELSE Len(people_links.val) - 1)

C1_Witness ==
  /\ HarvestCompleted
  /\ Len(people_links.val) = 3
  /\ Len(DataRows) = 1
  /\ \E k \in 1..Len(met) : met[k].kind # "response" \/ ~NamedPage(met[k].soup.doc)

\* C2 as stated: every run evaluates ok_to_crawl exactly once, crawls and
\* opens the file only after it returned true, and after false prints a
\* message and ends without crawling or touching the file.
PermissionBeforeCrawl ==
  /\ Len(perm) <= 1
  /\ ((\E k \in 1..Len(net) : IsCrawlRequest(net[k])) \/ file # "absent"
        \/ pc \in {"harvest", "open", "header", "for", "loop"})
       => (Granted /\ net[1].kind = "robots")
  /\ Denied =>
       /\ pc = "done"
       /\ \A k \in 1..Len(net) : ~IsCrawlRequest(net[k])
       /\ file = "absent"
       /\ lines = <<>>
       /\ stdout[Len(stdout)] = "This URL cannot be fetched!"

C2_CheckedOnceInEveryRun ==
  /\ PermissionBeforeCrawl
  /\ Ended => Len(perm) = 1

\* C2 as amended: every run whose arguments are valid evaluates
\* ok_to_crawl exactly once (a run with invalid arguments never does), and
\* the rest as stated.
C2_CheckedOnceInEveryValidRun ==
  /\ PermissionBeforeCrawl
  /\ (Ended /\ ValidUsage) => Len(perm) = 1
  /\ ~ValidUsage => Len(perm) = 0

C2_Witness == Denied /\ pc = "done" /\ net # <<>>

\* C3: a run with another argument count than one, or with a file name
\* whose extension is not .csv, makes no request and never opens the file.
C3_InvalidUsageDoesNothing ==
  ~ValidUsage =>
    /\ net = <<>>
    /\ perm = <<>>
    /\ file = "absent"
    /\ lines = <<>>
    /\ pc \in {"main", "done"}
    /\ pc = "done" => stdout # <<>>

C3_Witness ==
  /\ pc = "done"
  /\ Len(argv) = 2
  /\ splitext_ext(argv[2]) # DotCsv
  /\ stdout = <<"Please specify a csv filename">>

\* C4: once permission was granted no failed fetch ends the run with an
\* error: not the failed fetch of the index, after which get_people_links
\* returned None, and not the failed fetch of a profile.
C4_FailedFetchIsNotFatal ==
  (pc = "error" /\ Granted) =>
    /\ people_links # None
    /\ met # <<>>
    /\ met[Len(met)].kind = "response"

\* C9: a run of harvest that collected a list of links fetches the index
\* once, then the links at positions 2..N once each and in order, writes
\* the header once and before any row, and ends with the file closed.
C9_OnePass ==
  (Ended /\ Granted /\ people_links # None) =>
    /\ file = "closed"
    /\ Len(SelectSeq(net, IsIndexRequest)) = 1
    /\ FetchedLinks = LinksAfterFirst
    /\ lines # <<>>
    /\ lines[1] = Header
    /\ Len(SelectSeq(lines, IsHeader)) = 1

(***************************************************************************)
(* Properties of ok_to_crawl (SpecCrawl).                                  *)
(***************************************************************************)
\* C6: ok_to_crawl returns a boolean and never raises; it returns false
\* without a request when the url lacks a scheme or a hostname, false
\* whenever reading the policy fails, and true only when the policy was
\* read and allows the url.
C6_DeniesOnEveryError ==
  out.kind = "called" =>
    /\ out.result.kind = "bool"
    /\ (url.scheme = "" \/ url.hostname = "") =>
         (out.result = Bool(FALSE) /\ net = <<>>)
    /\ out.outcome.kind # "policy" => out.result = Bool(FALSE)
    /\ out.result = Bool(TRUE) =>
         (out.outcome.kind = "policy" /\ out.outcome.allows)

====
